---- MODULE Spec2Model ----
(***************************************************************************)
(* Model of bill_splitter.py: the line parser (BillSplitter.parse_line),   *)
(* the allocation engine (BillSplitter.calculate_shares) and the driver    *)
(* loop (BillSplitter.process_file).                                       *)
(*                                                                         *)
(* A Python str is a sequence of one-character strings.  A finite Decimal  *)
(* is a normalised fraction <<n, d>> (d > 0, gcd(n, d) = 1) and the        *)
(* decimal module's arithmetic is exact arithmetic on these fractions.     *)
(* The decimal context keeps 28 significant digits, so a quotient without  *)
(* a finite expansion is off by a hair in the program.  That changes a     *)
(* quantized amount only when the exact value lies half-way between two    *)
(* cents; there the model leaves the direction of the rounding open        *)
(* (the choices up and last_up of RoundShares) instead of picking one.     *)
(* The signalling NaN that Decimal() accepts is the value SNaN; arithmetic *)
(* and comparisons on it raise decimal.InvalidOperation.                   *)
(***************************************************************************)
EXTENDS Integers, Sequences, FiniteSets, TLC

\* ------------------------------------------------------------------------
\* Bounds of the model
\* ------------------------------------------------------------------------
\* Longest input file explored, in lines.
MaxLines == 3

\* ------------------------------------------------------------------------
\* Exact decimal values
\* ------------------------------------------------------------------------
Abs(x) == IF x < 0 THEN -x ELSE x

RECURSIVE Gcd(_, _)
Gcd(a, b) == IF b = 0 THEN a ELSE Gcd(b, a % b)

\* The fraction n/d in lowest terms with a positive denominator.
Rat(n, d) ==
    LET s == IF d < 0 THEN -1 ELSE 1
        g == Gcd(Abs(n), Abs(d))
    IN  <<(s * n) \div g, (s * d) \div g>>

\* Decimal('0')
Zero == <<0, 1>>

\* Decimal('100')
Hundred == <<100, 1>>

\* Decimal('sNaN'), the signalling not-a-number (a one-element tuple, so
\* that it is comparable with, and different from, every fraction).
SNaN == <<"sNaN">>

IsFinite(x) == x # SNaN

\* Decimal.__add__, __sub__, __mul__, __truediv__ on finite values.
RatAdd(a, b) ==
    LET g == Gcd(a[2], b[2])
    IN  Rat(a[1] * (b[2] \div g) + b[1] * (a[2] \div g),
            (a[2] \div g) * b[2])

RatSub(a, b) == RatAdd(a, <<-b[1], b[2]>>)

RatMul(a, b) ==
    LET g1 == Gcd(Abs(a[1]), b[2])
        g2 == Gcd(Abs(b[1]), a[2])
    IN  Rat((a[1] \div g1) * (b[1] \div g2),
            (a[2] \div g2) * (b[2] \div g1))

\* b is not zero.
RatDiv(a, b) ==
    RatMul(a, IF b[1] < 0 THEN <<-b[2], -b[1]>> ELSE <<b[2], b[1]>>)

\* Decimal.__gt__ on finite values.
RatGt(a, b) == a[1] * b[2] > b[1] * a[2]

\* x.quantize(Decimal('0.01'), rounding=ROUND_HALF_UP): nearest multiple of
\* 0.01, a tie going away from zero.
QuantizeHalfUp(x) ==
    LET a     == Abs(x[1]) * 100
        cents == (2 * a + x[2]) \div (2 * x[2])
    IN  Rat((IF x[1] < 0 THEN -1 ELSE 1) * cents, 100)

\* x.quantize(Decimal('0.01')): no rounding argument, so the context's
\* rounding applies, which is ROUND_HALF_EVEN: a tie goes to the even cent.
QuantizeDefault(x) ==
    LET a     == Abs(x[1]) * 100
        fl    == a \div x[2]
        rem   == a % x[2]
        cents == IF 2 * rem < x[2] THEN fl
                 ELSE IF 2 * rem > x[2] THEN fl + 1
                 ELSE IF fl % 2 = 0 THEN fl ELSE fl + 1
    IN  Rat((IF x[1] < 0 THEN -1 ELSE 1) * cents, 100)

\* x lies exactly half-way between two multiples of 0.01.
IsTie(x) == (200 * x[1]) % x[2] = 0 /\ ((200 * x[1]) \div x[2]) % 2 = 1

\* The multiple of 0.01 next above (up) or next below a half-way value.
QuantizeTie(x, up) ==
    LET twice == (200 * x[1]) \div x[2]
    IN  Rat(IF up THEN (twice + 1) \div 2 ELSE (twice - 1) \div 2, 100)

RECURSIVE StripFactor(_, _)
StripFactor(n, f) == IF n % f = 0 THEN StripFactor(n \div f, f) ELSE n

\* x has a finite decimal expansion, so the context represents it exactly.
Terminating(x) == StripFactor(StripFactor(x[2], 2), 5) = 1

\* ------------------------------------------------------------------------
\* Strings
\* ------------------------------------------------------------------------
\* The characters used, in ascending code point order.
CharOrder ==
    <<" ", "%", "+", ",", "-", ".", "0", "1", "2", "3", "4", "5", "6", "7",
      "8", "9", ":", "A", "B", "C", "D", "E", "G", "H", "N", "P", "R", "S",
      "T", "W", "[", "]", "a", "b", "c", "d", "e", "g", "h", "i", "l", "n",
      "o", "p", "r", "s", "t", "u", "w", "x", "z">>

\* ord(c)
Ord(c) == CHOOSE i \in 1..Len(CharOrder) : CharOrder[i] = c

\* str.lower() on one character.
LowerChar(c) ==
    CASE c = "A" -> "a" [] c = "B" -> "b" [] c = "C" -> "c" [] c = "D" -> "d"
      [] c = "E" -> "e" [] c = "G" -> "g" [] c = "H" -> "h" [] c = "N" -> "n"
      [] c = "P" -> "p" [] c = "R" -> "r" [] c = "S" -> "s" [] c = "T" -> "t"
      [] c = "W" -> "w" [] OTHER -> c

\* str.lower()
Lower(s) == [i \in 1..Len(s) |-> LowerChar(s[i])]

IsSpace(c) == c = " "

\* str.strip()
RECURSIVE LStrip(_)
LStrip(s) == IF s # <<>> /\ IsSpace(Head(s)) THEN LStrip(Tail(s)) ELSE s

RECURSIVE RStrip(_)
RStrip(s) ==
    IF s # <<>> /\ IsSpace(s[Len(s)]) THEN RStrip(SubSeq(s, 1, Len(s) - 1))
    ELSE s

Strip(s) == RStrip(LStrip(s))

\* str.startswith(p)
StartsWith(s, p) == Len(s) >= Len(p) /\ SubSeq(s, 1, Len(p)) = p

\* str.endswith(p)
EndsWith(s, p) ==
    Len(s) >= Len(p) /\ SubSeq(s, Len(s) - Len(p) + 1, Len(s)) = p

\* str.find(sep): index of the first occurrence of sep in s, 0 if none.
Find(s, sep) ==
    LET hits == {i \in 1..(Len(s) - Len(sep) + 1) :
                    SubSeq(s, i, i + Len(sep) - 1) = sep}
    IN  IF hits = {} THEN 0
        ELSE CHOOSE i \in hits : \A j \in hits : i <= j

\* s.split(sep, 1): one or two parts.
Split1(s, sep) ==
    LET i == Find(s, sep)
    IN  IF i = 0 THEN <<s>>
        ELSE <<SubSeq(s, 1, i - 1), SubSeq(s, i + Len(sep), Len(s))>>

\* s.split(sep): every part, never an empty list.
RECURSIVE Split(_, _)
Split(s, sep) ==
    LET i == Find(s, sep)
    IN  IF i = 0 THEN <<s>>
        ELSE <<SubSeq(s, 1, i - 1)>>
             \o Split(SubSeq(s, i + Len(sep), Len(s)), sep)

\* Ordinal comparison of two strings: a < b.
RECURSIVE StrLess(_, _)
StrLess(a, b) ==
    IF b = <<>> THEN FALSE
    ELSE IF a = <<>> THEN TRUE
    ELSE IF Head(a) # Head(b) THEN Ord(Head(a)) < Ord(Head(b))
    ELSE StrLess(Tail(a), Tail(b))

\* sorted(names)
RECURSIVE Sorted(_)
Sorted(S) ==
    IF S = {} THEN <<>>
    ELSE LET m == CHOOSE x \in S : \A y \in S \ {x} : StrLess(x, y)
         IN  <<m>> \o Sorted(S \ {m})

\* ------------------------------------------------------------------------
\* Decimal(str)
\* ------------------------------------------------------------------------
Digits == {"0", "1", "2", "3", "4", "5", "6", "7", "8", "9"}

DigitVal(c) == Ord(c) - Ord("0")

RECURSIVE DigitsToInt(_)
DigitsToInt(s) ==
    IF s = <<>> THEN 0
    ELSE 10 * DigitsToInt(SubSeq(s, 1, Len(s) - 1)) + DigitVal(s[Len(s)])

RECURSIVE Pow10(_)
Pow10(k) == IF k = 0 THEN 1 ELSE 10 * Pow10(k - 1)

\* The outcome of a conversion that raises.
Invalid == <<>>

\* Decimal(s) for the literals used: an optional sign, digits with at most
\* one decimal point, or sNaN in any case.  Invalid stands for the
\* decimal.InvalidOperation the constructor raises.
ToDecimal(s) ==
    LET neg  == s # <<>> /\ Head(s) = "-"
        body == IF s # <<>> /\ Head(s) \in {"-", "+"} THEN Tail(s) ELSE s
        parts == Split1(body, <<".">>)
        ip   == parts[1]
        fp   == IF Len(parts) = 2 THEN parts[2] ELSE <<>>
        ok   == /\ \A i \in 1..Len(ip) : ip[i] \in Digits
                /\ \A i \in 1..Len(fp) : fp[i] \in Digits
                /\ Len(ip) + Len(fp) > 0
    IN  IF Lower(body) = <<"s", "n", "a", "n">> THEN SNaN
        ELSE IF ~ok THEN Invalid
        ELSE Rat((IF neg THEN -1 ELSE 1) * DigitsToInt(ip \o fp),
                 Pow10(Len(fp)))

\* ------------------------------------------------------------------------
\* Input
\* ------------------------------------------------------------------------
\* The lines a bill file is made of (without the line terminator, which
\* parse_line strips).
Lines ==
  { \* Pizza[Alice,Bob],20.00
    <<"P", "i", "z", "z", "a", "[", "A", "l", "i", "c", "e", ",", "B",
      "o", "b", "]", ",", "2", "0", ".", "0", "0">>,
    \* Soda[Alice],2.00
    <<"S", "o", "d", "a", "[", "A", "l", "i", "c", "e", "]", ",", "2",
      ".", "0", "0">>,
    \* T[A], 0.125
    <<"T", "[", "A", "]", ",", " ", "0", ".", "1", "2", "5">>,
    \* W[B], 0
    <<"W", "[", "B", "]", ",", " ", "0">>,
    \* D[A,A,B], 9
    <<"D", "[", "A", ",", "A", ",", "B", "]", ",", " ", "9">>,
    \* G[a,B], 0.01
    <<"G", "[", "a", ",", "B", "]", ",", " ", "0", ".", "0", "1">>,
    \* P[], 10
    <<"P", "[", "]", ",", " ", "1", "0">>,
    \* P[ ], 10
    <<"P", "[", " ", "]", ",", " ", "1", "0">>,
    \* R[A], -5
    <<"R", "[", "A", "]", ",", " ", "-", "5">>,
    \* S[A], sNaN
    <<"S", "[", "A", "]", ",", " ", "s", "N", "a", "N">>,
    \* Pizza[Alice,Bob] 20.00
    <<"P", "i", "z", "z", "a", "[", "A", "l", "i", "c", "e", ",", "B",
      "o", "b", "]", " ", "2", "0", ".", "0", "0">>,
    \* T[A], x
    <<"T", "[", "A", "]", ",", " ", "x">>,
    \* charge: 5
    <<"c", "h", "a", "r", "g", "e", ":", " ", "5">>,
    \* CHARGE:1
    <<"C", "H", "A", "R", "G", "E", ":", "1">>,
    \* charge: sNaN
    <<"c", "h", "a", "r", "g", "e", ":", " ", "s", "N", "a", "N">>,
    \* charge: x
    <<"c", "h", "a", "r", "g", "e", ":", " ", "x">>,
    \* discount: 10%
    <<"d", "i", "s", "c", "o", "u", "n", "t", ":", " ", "1", "0", "%">>,
    \* disount: 2
    <<"d", "i", "s", "o", "u", "n", "t", ":", " ", "2">>,
    \* Discount: 0.125
    <<"D", "i", "s", "c", "o", "u", "n", "t", ":", " ", "0", ".", "1",
      "2", "5">>,
    \* the empty line
    <<>>,
    \* a line of one space
    <<" ">> }

\* ------------------------------------------------------------------------
\* BillEntry and the line parser
\* ------------------------------------------------------------------------
\* BillEntry.__init__ (price is finite).
BillEntry(item, people, price) ==
    [item             |-> Strip(item),
     people           |-> [i \in 1..Len(people) |-> Strip(people[i])],
     price            |-> price,
     price_per_person |-> RatDiv(price, <<Len(people), 1>>)]

\* BillSplitter.parse_price: the Decimal, or Invalid when ValueError is
\* raised.
parse_price(price_str) == ToDecimal(Strip(price_str))

\* BillSplitter.parse_people_list: re.match(r'\[(.*?)\]', ...) takes the
\* shortest text between the opening bracket and the first closing one;
\* Invalid when there is no match and ValueError is raised.  The result of
\* split is never the empty list.
parse_people_list(people_str) ==
    IF \/ Strip(people_str) = <<>>
       \/ Head(Strip(people_str)) # "["
       \/ Find(Strip(people_str), <<"]">>) = 0
    THEN Invalid
    ELSE [i \in 1..Len(Split(SubSeq(Strip(people_str), 2,
                                    Find(Strip(people_str), <<"]">>) - 1),
                             <<",">>)) |->
            Strip(Split(SubSeq(Strip(people_str), 2,
                               Find(Strip(people_str), <<"]">>) - 1),
                        <<",">>)[i])]

\* The fields of a BillSplitter together with the outcome of a call.
Outcome(raised, e, c, d, t, p) ==
    [raised |-> raised, entries |-> e, charge |-> c, discount |-> d,
     total_before_adjustments |-> t, people_set |-> p]

\* A call that leaves by return, or by raise, without a change.
Same(self) ==
    Outcome(FALSE, self.entries, self.charge, self.discount,
            self.total_before_adjustments, self.people_set)

Fail(self) ==
    Outcome(TRUE, self.entries, self.charge, self.discount,
            self.total_before_adjustments, self.people_set)

CHARGE_PREFIX == <<"c", "h", "a", "r", "g", "e", ":">>

DISCOUNT_PREFIX == <<"d", "i", "s", "c", "o", "u", "n", "t", ":">>

DISOUNT_PREFIX == <<"d", "i", "s", "o", "u", "n", "t", ":">>

\* Line 59: line.split('],', 1)
item_and_price(line) == Split1(line, <<"]", ",">>)

\* Line 61: item_and_people.split('[', 1)
item_and_people(line) == Split1(item_and_price(line)[1], <<"[">>)

\* Line 65
price_of(line) == parse_price(item_and_price(line)[2])

\* Lines 63 and 66
people_of(line) ==
    parse_people_list(<<"[">> \o item_and_people(line)[2] \o <<"]">>)

\* The item branch of parse_line (the try block), line being stripped.
parse_item(self, line) ==
    IF Len(item_and_price(line)) # 2 THEN Fail(self)
    ELSE IF Len(item_and_people(line)) # 2 THEN Fail(self)
    ELSE IF price_of(line) = Invalid THEN Fail(self)
    ELSE IF people_of(line) = Invalid THEN Fail(self)
    \* if not people: raise ValueError
    ELSE IF Len(people_of(line)) = 0 THEN Fail(self)
    \* price / len(people) raises on a signalling NaN, after
    \* people_set.update and before the append
    ELSE IF ~IsFinite(price_of(line))
    THEN Outcome(TRUE, self.entries, self.charge, self.discount,
                 self.total_before_adjustments,
                 self.people_set
                   \cup {people_of(line)[i] : i \in 1..Len(people_of(line))})
    ELSE Outcome(FALSE,
                 Append(self.entries,
                        BillEntry(item_and_people(line)[1], people_of(line),
                                  price_of(line))),
                 self.charge, self.discount,
                 RatAdd(self.total_before_adjustments, price_of(line)),
                 self.people_set
                   \cup {people_of(line)[i] : i \in 1..Len(people_of(line))})

\* Lines 45, 49: line.split(':', 1)[1]
after_colon(line) == Split1(line, <<":">>)[2]

\* A variant of parse_charge that keeps a charge an earlier directive set.
parse_charge_first_wins(self, line) ==
    IF parse_price(after_colon(line)) = Invalid THEN Fail(self)
    ELSE IF self.charge # Zero THEN Same(self)
    ELSE [Same(self) EXCEPT !.charge = parse_price(after_colon(line))]

\* Lines 44-46: the charge directive.
parse_charge(self, line) ==
    IF parse_price(after_colon(line)) = Invalid THEN Fail(self)
    ELSE [Same(self) EXCEPT !.charge = parse_price(after_colon(line))]

\* Line 51: discount_value[:-1]
percent_text(line) ==
    SubSeq(Strip(after_colon(line)), 1, Len(Strip(after_colon(line))) - 1)

\* Lines 48-55: the discount directive.
parse_discount(self, line) ==
    IF EndsWith(Strip(after_colon(line)), <<"%">>)
    THEN IF parse_price(percent_text(line)) = Invalid THEN Fail(self)
         ELSE [Same(self) EXCEPT
                 !.discount = <<"percentage",
                                parse_price(percent_text(line))>>]
    ELSE IF parse_price(Strip(after_colon(line))) = Invalid THEN Fail(self)
         ELSE [Same(self) EXCEPT
                 !.discount = <<"value",
                                parse_price(Strip(after_colon(line)))>>]

\* BillSplitter.parse_line: the fields after the call, raised when it ends
\* in ValueError.
parse_line(self, raw) ==
    IF Strip(raw) = <<>> THEN Same(self)
    ELSE IF StartsWith(Lower(Strip(raw)), CHARGE_PREFIX)
    THEN parse_charge(self, Strip(raw))
    ELSE IF \/ StartsWith(Lower(Strip(raw)), DISCOUNT_PREFIX)
            \/ StartsWith(Lower(Strip(raw)), DISOUNT_PREFIX)
    THEN parse_discount(self, Strip(raw))
    ELSE parse_item(self, Strip(raw))

\* ------------------------------------------------------------------------
\* State
\* ------------------------------------------------------------------------
VARIABLES
    entries,                   \* self.entries
    charge,                    \* self.charge
    discount,                  \* self.discount, <<kind, value>>
    total_before_adjustments,  \* self.total_before_adjustments
    people_set,                \* self.people_set
    pc,                        \* where process_file is
    line_num,                  \* lines taken from the file so far
    file,                      \* the lines taken from the file so far
    output,                    \* what has been written to standard output
    call,                      \* how the call of calculate_shares stands
    individual_totals,         \* locals of calculate_shares ...
    total_spending,
    discount_amount,
    shares,
    total_after_adjustments,
    rounded_shares             \* ... and the dictionary it returns

bill == <<entries, charge, discount, total_before_adjustments, people_set>>

locals == <<individual_totals, total_spending, discount_amount, shares,
            total_after_adjustments, rounded_shares>>

vars == <<bill, pc, line_num, file, output, call, locals>>

\* The BillSplitter object.
Self ==
    [entries |-> entries, charge |-> charge, discount |-> discount,
     total_before_adjustments |-> total_before_adjustments,
     people_set |-> people_set]

\* BillSplitter.__init__
Fresh ==
    [entries |-> <<>>, charge |-> Zero, discount |-> <<"value", Zero>>,
     total_before_adjustments |-> Zero, people_set |-> {}]

Init ==
    /\ entries = Fresh.entries
    /\ charge = Fresh.charge
    /\ discount = Fresh.discount
    /\ total_before_adjustments = Fresh.total_before_adjustments
    /\ people_set = Fresh.people_set
    /\ pc = "parsing"
    /\ line_num = 0
    /\ file = <<>>
    /\ output = <<>>
    /\ call = "not_called"
    /\ individual_totals = <<>>
    /\ total_spending = Zero
    /\ discount_amount = Zero
    /\ shares = <<>>
    /\ total_after_adjustments = Zero
    /\ rounded_shares = <<>>

\* ------------------------------------------------------------------------
\* The allocation engine (calculate_shares)
\* ------------------------------------------------------------------------
\* sum(d.values()) over the keys S of a dictionary of finite Decimals.
RECURSIVE SumValues(_, _)
SumValues(f, S) ==
    IF S = {} THEN Zero
    ELSE LET k == CHOOSE x \in S : TRUE
         IN  RatAdd(f[k], SumValues(f, S \ {k}))

\* A variant of the inner loop that credits a name once per item however
\* often the item lists it.
RECURSIVE AddPerPersonOnce(_, _, _)
AddPerPersonOnce(totals, people, share_per_person) ==
    IF people = <<>> THEN totals
    ELSE IF \E i \in 1..Len(Tail(people)) : Tail(people)[i] = Head(people)
    THEN AddPerPersonOnce(totals, Tail(people), share_per_person)
    ELSE AddPerPersonOnce(
           [totals EXCEPT ![Head(people)] = RatAdd(@, share_per_person)],
           Tail(people), share_per_person)

\* The inner loop of lines 90-92: every listed name, in order, is credited
\* share_per_person.
RECURSIVE AddPerPerson(_, _, _)
AddPerPerson(totals, people, share_per_person) ==
    IF people = <<>> THEN totals
    ELSE AddPerPerson(
           [totals EXCEPT ![Head(people)] = RatAdd(@, share_per_person)],
           Tail(people), share_per_person)

\* The outer loop of lines 88-92 over the entries.
RECURSIVE BaseShares(_, _)
BaseShares(totals, es) ==
    IF es = <<>> THEN totals
    ELSE BaseShares(
           AddPerPerson(totals, Head(es).people, Head(es).price_per_person),
           Tail(es))

\* Line 97: if total_spending > 0
Adjusts == RatGt(total_spending, Zero)

\* Line 99: self.charge != 0 raises on a signalling NaN.
ChargeRaises == Adjusts /\ ~IsFinite(charge)

ChargeApplies == Adjusts /\ IsFinite(charge) /\ charge # Zero

\* Line 105: self.discount[1] != 0 raises on a signalling NaN.
DiscountRaises == Adjusts /\ IsFinite(charge) /\ ~IsFinite(discount[2])

DiscountApplies ==
    Adjusts /\ IsFinite(charge) /\ IsFinite(discount[2])
            /\ discount[2] # Zero

\* Lines 101 and 117: proportion
Proportion(p) == RatDiv(individual_totals[p], total_spending)

\* Lines 99-102: the share of p with the charge.
Charged(p) ==
    IF ChargeApplies
    THEN RatAdd(individual_totals[p], RatMul(charge, Proportion(p)))
    ELSE individual_totals[p]

\* A variant that takes the percentage of the subtotal without the charge.
DiscountAmountBeforeCharge ==
    IF discount[1] = "percentage"
    THEN QuantizeHalfUp(RatMul(total_before_adjustments,
                               RatDiv(discount[2], Hundred)))
    ELSE discount[2]

\* Lines 106-114: discount_amount.
DiscountAmount ==
    IF discount[1] = "percentage"
    THEN QuantizeHalfUp(RatMul(RatAdd(total_before_adjustments, charge),
                               RatDiv(discount[2], Hundred)))
    ELSE discount[2]

\* The people whose proportion, and with it their adjusted share, the
\* decimal context cannot represent exactly.
Inexact ==
    IF ChargeApplies \/ DiscountApplies
    THEN {p \in people_set : ~Terminating(Proportion(p))}
    ELSE {}

\* The people whose unrounded share is inexact and half-way between two
\* cents: the program may round it either way.
InexactTies == {p \in Inexact : IsTie(shares[p])}

\* Line 137: last_person (there is at least one person).
LastPerson == Sorted(people_set)[Cardinality(people_set)]

\* Line 132: rounded_amount; up is the set of people whose inexact
\* half-way share goes upwards.
RoundedAmount(p, up) ==
    IF p \in InexactTies THEN QuantizeTie(shares[p], p \in up)
    ELSE QuantizeHalfUp(shares[p])

\* Lines 131-134: running_total
RunningTotal(up) ==
    SumValues([p \in people_set \ {LastPerson} |-> RoundedAmount(p, up)],
              people_set \ {LastPerson})

\* Line 138: the amount of the last person; last_up tells where an inexact
\* half-way remainder goes.
LastAmount(up, last_up) ==
    IF /\ Inexact # {}
       /\ IsTie(RatSub(total_after_adjustments, RunningTotal(up)))
    THEN QuantizeTie(RatSub(total_after_adjustments, RunningTotal(up)),
                     last_up)
    ELSE QuantizeDefault(RatSub(total_after_adjustments, RunningTotal(up)))

\* ------------------------------------------------------------------------
\* process_file
\* ------------------------------------------------------------------------
\* The fields of the object become those of an outcome of parse_line.
Becomes(r) ==
    /\ entries' = r.entries
    /\ charge' = r.charge
    /\ discount' = r.discount
    /\ total_before_adjustments' = r.total_before_adjustments
    /\ people_set' = r.people_set

Msg(kind, n) == [kind |-> kind, line_num |-> n]

\* One turn of the loop of lines 150-152: the next line parses.
ParseLineOk ==
    /\ pc = "parsing"
    /\ line_num < MaxLines
    /\ \E line \in Lines :
         /\ ~parse_line(Self, line).raised
         /\ Becomes(parse_line(Self, line))
         /\ file' = Append(file, line)
    /\ line_num' = line_num + 1
    /\ UNCHANGED <<pc, output, call, locals>>

\* A variant of lines 153-155 that reports the line and goes on with the
\* next one.
ParseLineRaisesAndContinues ==
    /\ pc = "parsing"
    /\ line_num < MaxLines
    /\ \E line \in Lines :
         /\ parse_line(Self, line).raised
         /\ Becomes(parse_line(Self, line))
         /\ file' = Append(file, line)
    /\ line_num' = line_num + 1
    /\ output' = Append(output, Msg("parse_error", line_num + 1))
    /\ UNCHANGED <<pc, call, locals>>

\* Lines 153-155: parse_line raises ValueError, the error is reported with
\* the number of the line and process_file returns.
ParseLineRaises ==
    /\ pc = "parsing"
    /\ line_num < MaxLines
    /\ \E line \in Lines :
         /\ parse_line(Self, line).raised
         /\ Becomes(parse_line(Self, line))
         /\ file' = Append(file, line)
    /\ line_num' = line_num + 1
    /\ output' = Append(output, Msg("parse_error", line_num + 1))
    /\ pc' = "returned"
    /\ UNCHANGED <<call, locals>>

\* Line 158 at the end of the file, lines 84-95 of calculate_shares: the
\* base shares and total_spending.
BaseTotals ==
    /\ pc = "parsing"
    /\ call' = "running"
    /\ individual_totals' = BaseShares([p \in people_set |-> Zero], entries)
    /\ total_spending' = SumValues(individual_totals', people_set)
    /\ pc' = "adjust"
    /\ UNCHANGED <<bill, line_num, file, output, discount_amount, shares,
                   total_after_adjustments, rounded_shares>>

\* Lines 97-121: the charge and the discount are spread over the shares.
AdjustShares ==
    /\ pc = "adjust"
    /\ ~ChargeRaises
    /\ ~DiscountRaises
    /\ discount_amount' = IF DiscountApplies THEN DiscountAmount ELSE Zero
    /\ shares' = [p \in people_set |->
                    IF DiscountApplies
                    THEN RatSub(Charged(p),
                                RatMul(discount_amount', Proportion(p)))
                    ELSE Charged(p)]
    /\ total_after_adjustments' = SumValues(shares', people_set)
    /\ pc' = "round"
    /\ UNCHANGED <<bill, line_num, file, output, call, individual_totals,
                   total_spending, rounded_shares>>

\* Lines 99 and 105 raise decimal.InvalidOperation, which the handler of
\* lines 185-186 reports.
AdjustSharesRaises ==
    /\ pc = "adjust"
    /\ ChargeRaises \/ DiscountRaises
    /\ call' = "InvalidOperation"
    /\ output' = Append(output, Msg("processing_error", 0))
    /\ pc' = "returned"
    /\ UNCHANGED <<bill, line_num, file, locals>>

\* Lines 123-140: the shares are rounded and calculate_shares returns.
RoundShares ==
    /\ pc = "round"
    /\ people_set # {}
    /\ \E up \in SUBSET InexactTies, last_up \in BOOLEAN :
         rounded_shares' =
           [p \in people_set |->
              IF p = LastPerson THEN LastAmount(up, last_up)
              ELSE RoundedAmount(p, up)]
    /\ call' = "returned"
    /\ pc' = "report"
    /\ UNCHANGED <<bill, line_num, file, output, individual_totals,
                   total_spending, discount_amount, shares,
                   total_after_adjustments>>

\* Line 137: sorted_people[-1] raises IndexError on an empty list, which
\* the handler of lines 185-186 reports.
RoundSharesRaises ==
    /\ pc = "round"
    /\ people_set = {}
    /\ call' = "IndexError"
    /\ output' = Append(output, Msg("processing_error", 0))
    /\ pc' = "returned"
    /\ UNCHANGED <<bill, line_num, file, locals>>

\* The parts of the summary of lines 160-181, in the order written, up to
\* the first comparison that raises.
Summary ==
    <<Msg("header", 0), Msg("items", 0), Msg("subtotal", 0)>>
    \o (IF ~IsFinite(charge) THEN <<Msg("processing_error", 0)>>
        ELSE (IF charge # Zero THEN <<Msg("charge", 0)>> ELSE <<>>)
             \o (IF ~IsFinite(discount[2])
                 THEN <<Msg("processing_error", 0)>>
                 ELSE (IF discount[2] # Zero THEN <<Msg("discount", 0)>>
                       ELSE <<>>)
                      \o <<Msg("amounts", 0)>>))

\* Lines 160-181: the summary is written.
ReportSummary ==
    /\ pc = "report"
    /\ output' = output \o Summary
    /\ pc' = "returned"
    /\ UNCHANGED <<bill, line_num, file, call, locals>>

Next ==
    \/ ParseLineOk
    \/ ParseLineRaises
    \/ BaseTotals
    \/ AdjustShares
    \/ AdjustSharesRaises
    \/ RoundShares
    \/ RoundSharesRaises
    \/ ReportSummary

Spec == Init /\ [][Next]_vars

\* ------------------------------------------------------------------------
\* Properties
\* ------------------------------------------------------------------------
\* process_file stopped on a line that parse_line rejected.
ParseFailed ==
    \E i \in 1..Len(output) : output[i].kind = "parse_error"

\* calculate_shares has ended.
Ended == call \in {"returned", "InvalidOperation", "IndexError"}

\* calculate_shares returned, the adjustments are finite and its roundings
\* are those of exact arithmetic.
Settled ==
    /\ call = "returned"
    /\ InexactTies = {}
    /\ \/ Inexact = {}
       \/ ~IsTie(RatSub(total_after_adjustments, RunningTotal({})))
    /\ IsFinite(charge)
    /\ IsFinite(discount[2])

\* The discount amount as the specification states it: the flat value as
\* given, or the percentage of subtotal plus charge rounded half-up.
StatedDiscountAmount ==
    IF discount[1] = "percentage"
    THEN QuantizeHalfUp(RatDiv(RatMul(RatAdd(total_before_adjustments,
                                              charge),
                                       discount[2]),
                               Hundred))
    ELSE discount[2]

\* C1 (sum invariant, as stated): for every bill that parses and has at
\* least one participant, calculate_shares returns amounts whose sum is the
\* half-up rounding to cents of totalBeforeAdjustments + charge -
\* discountAmount.
C1_SumInvariant ==
    /\ (/\ Ended
        /\ people_set # {}
        /\ IsFinite(charge)
        /\ IsFinite(discount[2])) => call = "returned"
    /\ (Settled /\ people_set # {}) =>
          SumValues(rounded_shares, people_set)
            = QuantizeHalfUp(RatSub(RatAdd(total_before_adjustments, charge),
                                    StatedDiscountAmount))

\* C2 (zero-spending guard, as stated): when every item has price zero, or
\* there is no item at all, calculate_shares returns without raising and
\* every participant's share is zero.
C2_ZeroSpendingGuard ==
    (/\ Ended
     /\ \A i \in 1..Len(entries) : entries[i].price = Zero) =>
        /\ call = "returned"
        /\ DOMAIN rounded_shares = people_set
        /\ \A p \in people_set : rounded_shares[p] = Zero

\* The item lines whose bracketed list holds no name.
EmptyListLines ==
    { <<"P", "[", "]", ",", " ", "1", "0">>,
      <<"P", "[", " ", "]", ",", " ", "1", "0">> }

\* C3 (as stated): an item line with an empty bracketed list is rejected
\* with a parse error; nothing is appended to entries, no name (the empty
\* string included) enters people_set and total_before_adjustments keeps
\* its value.
C3_EmptyListRejected ==
    [][(line_num' = line_num + 1 /\ file'[line_num'] \in EmptyListLines) =>
          /\ pc' = "returned"
          /\ output' = Append(output, Msg("parse_error", line_num'))
          /\ UNCHANGED <<entries, people_set, total_before_adjustments>>
          /\ <<>> \notin people_set']_vars

\* C5 (remainder determinism, as stated): everyone but the participant
\* whose name is greatest in ordinal order gets the half-up rounding of
\* their own unrounded share, and that last participant gets the half-up
\* rounded adjusted total minus the others' rounded amounts.
C5_RemainderDeterminism ==
    (Settled /\ people_set # {}) =>
        LET last   == CHOOSE p \in people_set :
                         \A q \in people_set \ {p} : StrLess(q, p)
            others == people_set \ {last}
        IN  /\ \A p \in others :
                 rounded_shares[p] = QuantizeHalfUp(shares[p])
            /\ rounded_shares[last]
                 = RatSub(QuantizeHalfUp(total_after_adjustments),
                          SumValues(rounded_shares, others))

\* C6 (proportionality, as stated): whenever totalSpending is not zero the
\* unrounded share of p is individualTotal[p] plus the charge times
\* individualTotal[p]/totalSpending minus the discount amount times the
\* same proportion, so that double the spending means double the
\* adjustment.
C6_Proportionality ==
    (Settled /\ total_spending # Zero) =>
        LET ind     == individual_totals
            prop(p) == RatDiv(ind[p], total_spending)
        IN  /\ \A p \in people_set :
                 shares[p]
                   = RatSub(RatAdd(ind[p], RatMul(charge, prop(p))),
                            RatMul(StatedDiscountAmount, prop(p)))
            /\ \A p, q \in people_set :
                 ind[p] = RatMul(<<2, 1>>, ind[q]) =>
                   RatSub(shares[p], ind[p])
                     = RatMul(<<2, 1>>, RatSub(shares[q], ind[q]))

\* C10 (consistency of the bill, as stated): at all times
\* total_before_adjustments is the sum of the prices of the entries,
\* people_set is the set of the names listed in the entries and no entry
\* has an empty list; entries only grows by appending, and a call of
\* parse_line that fails changes no field.
C10_BillStateConsistent ==
    /\ [](/\ total_before_adjustments
               = SumValues([i \in 1..Len(entries) |-> entries[i].price],
                           1..Len(entries))
          /\ people_set
               = UNION {{entries[i].people[j] :
                           j \in 1..Len(entries[i].people)} :
                        i \in 1..Len(entries)}
          /\ \A i \in 1..Len(entries) : Len(entries[i].people) > 0)
    /\ [][/\ Len(entries') >= Len(entries)
          /\ SubSeq(entries', 1, Len(entries)) = entries
          /\ (ParseFailed' => UNCHANGED bill)]_vars

\* The position of the first line of a file that parse_line rejects when
\* the lines are parsed in order, 0 if there is none.
RECURSIVE FirstFailing(_, _, _)
FirstFailing(self, lines, k) ==
    IF lines = <<>> THEN 0
    ELSE LET r == parse_line(self, Head(lines))
         IN  IF r.raised THEN k ELSE FirstFailing(r, Tail(lines), k + 1)

\* C4 (fail-fast parsing): once parse_line has failed on line k, k being
\* the first failing line of the file, process_file has returned having
\* written the one error message for line k; no later line is parsed,
\* calculate_shares is not called and no part of the summary is written.
C4_FailFast ==
    /\ [](LET k == FirstFailing(Fresh, file, 1)
          IN  IF k # 0
              THEN /\ pc = "returned"
                   /\ k = Len(file)
                   /\ line_num = k
                   /\ output = <<Msg("parse_error", k)>>
                   /\ call = "not_called"
              ELSE ~ParseFailed)
    /\ [][ParseFailed => UNCHANGED vars]_vars

\* A file whose third line is the first to fail, after an item was added.
C4_Witness ==
    /\ ParseFailed
    /\ pc = "returned"
    /\ Len(file) = 3
    /\ entries # <<>>

\* C7 (even split, amended): every entry's per-person share is its price
\* divided by the number of names listed, and individualTotal[p] is the sum
\* over the entries of price/N once for every occurrence of p in the
\* entry's list, so a name listed k times in an item receives k * P/N.
C7_EvenSplitPerOccurrence ==
    (call # "not_called") =>
        /\ \A i \in 1..Len(entries) :
             entries[i].price_per_person
               = RatDiv(entries[i].price, <<Len(entries[i].people), 1>>)
        /\ \A p \in people_set :
             individual_totals[p]
               = SumValues(
                   [i \in 1..Len(entries) |->
                      RatDiv(RatMul(<<Cardinality(
                                        {j \in 1..Len(entries[i].people) :
                                           entries[i].people[j] = p}), 1>>,
                                    entries[i].price),
                             <<Len(entries[i].people), 1>>)],
                   1..Len(entries))

\* C7 as stated: individualTotal[p] is the sum of price/N over the items
\* that list p, each item counted once even when it lists p more than once.
C7_EvenSplitPerItem ==
    (call # "not_called") =>
        \A p \in people_set :
          individual_totals[p]
            = SumValues(
                [i \in 1..Len(entries) |->
                   IF \E j \in 1..Len(entries[i].people) :
                        entries[i].people[j] = p
                   THEN RatDiv(entries[i].price,
                               <<Len(entries[i].people), 1>>)
                   ELSE Zero],
                1..Len(entries))

\* calculate_shares ran on a bill with an item that lists a name twice,
\* next to another item.
C7_Witness ==
    /\ call = "returned"
    /\ Len(entries) >= 2
    /\ \E i \in 1..Len(entries) :
         \E j, k \in 1..Len(entries[i].people) :
            j # k /\ entries[i].people[j] = entries[i].people[k]

Alice == <<"A", "l", "i", "c", "e">>

Bob == <<"B", "o", "b">>

\* The bill of the example: Pizza[Alice,Bob] 20.00, Soda[Alice] 2.00 and a
\* discount of 10%, in any order and with no charge.
ExampleBill ==
    /\ Len(entries) = 2
    /\ \E i \in 1..2 :
         /\ entries[i].people = <<Alice, Bob>>
         /\ entries[i].price = <<20, 1>>
         /\ entries[3 - i].people = <<Alice>>
         /\ entries[3 - i].price = <<2, 1>>
    /\ charge = Zero
    /\ discount = <<"percentage", <<10, 1>>>>

StatedCharge(line) ==
    CASE line = <<"c", "h", "a", "r", "g", "e", ":", " ", "5">> -> <<5, 1>>
      [] line = <<"C", "H", "A", "R", "G", "E", ":", "1">> -> <<1, 1>>
      [] line = <<"c", "h", "a", "r", "g", "e", ":", " ", "s", "N", "a",
                  "N">> -> SNaN
      [] OTHER -> Invalid

\* ... and the discount a line sets (Invalid when the line sets none).
StatedDiscount(line) ==
    CASE line = <<"d", "i", "s", "c", "o", "u", "n", "t", ":", " ", "1",
                  "0", "%">> -> <<"percentage", <<10, 1>>>>
      [] line = <<"d", "i", "s", "o", "u", "n", "t", ":", " ", "2">>
           -> <<"value", <<2, 1>>>>
      [] line = <<"D", "i", "s", "c", "o", "u", "n", "t", ":", " ", "0",
                  ".", "1", "2", "5">> -> <<"value", <<1, 8>>>>
      [] OTHER -> Invalid

\* The lines of Lines that are blank or directives, the rejected directive
\* included.
DirectiveOrBlank(line) ==
    \/ line \in {<<>>, <<" ">>,
                 <<"c", "h", "a", "r", "g", "e", ":", " ", "x">>}
    \/ StatedCharge(line) # Invalid
    \/ StatedDiscount(line) # Invalid

\* C9 (last directive wins): after lines that all parsed, charge is the
\* amount of the latest charge directive (0 without one) and discount the
\* kind and value of the latest discount or disount directive (flat 0
\* without one), wherever item and blank lines stand; directive and blank
\* lines leave entries, people_set and total_before_adjustments alone.
C9_LastDirectiveWins ==
    /\ [](~ParseFailed =>
            LET cs == {i \in 1..Len(file) : StatedCharge(file[i]) # Invalid}
                ds == {i \in 1..Len(file) : StatedDiscount(file[i]) # Invalid}
                latest(S) == CHOOSE i \in S : \A j \in S : j <= i
            IN  /\ charge = IF cs = {} THEN Zero
                            ELSE StatedCharge(file[latest(cs)])
                /\ discount = IF ds = {} THEN <<"value", Zero>>
                              ELSE StatedDiscount(file[latest(ds)]))
    /\ [][(line_num' = line_num + 1 /\ DirectiveOrBlank(file'[line_num'])) =>
            UNCHANGED <<entries, people_set, total_before_adjustments>>]_vars

\* Two charge directives with an item line between them.
C9_Witness ==
    /\ ~ParseFailed
    /\ Len(file) >= 3
    /\ StatedCharge(file[1]) = <<5, 1>>
    /\ entries # <<>>
    /\ StatedCharge(file[3]) = <<1, 1>>
    /\ charge = <<1, 1>>

====
